---- MODULE Spec2Model ----
(***************************************************************************)
(* Blueprint-to-resource-graph assembly of stacker_blueprints:             *)
(*   aws_lambda.Function, aws_lambda.FunctionScheduler, postgres.PostgresRDS*)
(* One behaviour is one render: Init picks the blueprint and its resolved  *)
(* variables, the actions are the construction steps of create_template.   *)
(* Names that the code builds by string formatting or sanitizing are       *)
(* sequences of one-character strings, so that formatting, prefix tests    *)
(* and sanitizing are computed and collisions are real.                    *)
(***************************************************************************)
EXTENDS Integers, Sequences, FiniteSets, TLC

VARIABLES
    bp,              \* which blueprint class is rendered
    name,            \* Blueprint.name (self.name)
    variables,       \* resolved variables (self.get_variables())
    pc,              \* position inside create_template
    resources,       \* template resources, in add order
    outputs,         \* template outputs, in add order
    conditions,      \* template conditions, in add order
    role_arn,        \* Function.role_arn
    i,               \* loop index of the two loops of create_scheduler
    aws_lambda_arns, \* the dict of create_scheduler, in insertion order
    error,           \* the exception that aborted the render, or "none"
    emitted          \* the output sequences emitted from the finished graph

vars == <<bp, name, variables, pc, resources, outputs, conditions,
          role_arn, i, aws_lambda_arns, error, emitted>>

\* ------------------------------------------------------------- bounds
MaxTargets == 2
MaxEmits == 2

\* ------------------------------------------------------------ strings
S_Role == <<"R", "o", "l", "e">>
S_Policy == <<"P", "o", "l", "i", "c", "y">>
S_Function == <<"F", "u", "n", "c", "t", "i", "o", "n">>
S_LatestVersion == <<"L", "a", "t", "e", "s", "t", "V", "e", "r", "s", "i", "o", "n">>
S_Alias == <<"A", "l", "i", "a", "s">>
S_PermToInvokeFunctionFor == <<"P", "e", "r", "m", "T", "o", "I", "n", "v", "o", "k", "e", "F", "u", "n", "c", "t", "i", "o", "n", "F", "o", "r">>
S_PostgresRDS == <<"P", "o", "s", "t", "g", "r", "e", "s", "R", "D", "S">>
S_SubnetGroup == <<"S", "u", "b", "n", "e", "t", "G", "r", "o", "u", "p">>
S_RdsSG == <<"R", "d", "s", "S", "G">>
S_DnsRecord == <<"D", "n", "s", "R", "e", "c", "o", "r", "d">>
S_VpcId == <<"V", "p", "c", "I", "d">>
S_PrivateSubnets == <<"P", "r", "i", "v", "a", "t", "e", "S", "u", "b", "n", "e", "t", "s">>
S_InstanceType == <<"I", "n", "s", "t", "a", "n", "c", "e", "T", "y", "p", "e">>
S_AllocatedStorage == <<"A", "l", "l", "o", "c", "a", "t", "e", "d", "S", "t", "o", "r", "a", "g", "e">>
S_MasterUser == <<"M", "a", "s", "t", "e", "r", "U", "s", "e", "r">>
S_MasterUserPassword == <<"M", "a", "s", "t", "e", "r", "U", "s", "e", "r", "P", "a", "s", "s", "w", "o", "r", "d">>
S_PreferredBackupWindow == <<"P", "r", "e", "f", "e", "r", "r", "e", "d", "B", "a", "c", "k", "u", "p", "W", "i", "n", "d", "o", "w">>
S_DBName == <<"D", "B", "N", "a", "m", "e">>
S_InternalZoneId == <<"I", "n", "t", "e", "r", "n", "a", "l", "Z", "o", "n", "e", "I", "d">>
S_InternalZoneName == <<"I", "n", "t", "e", "r", "n", "a", "l", "Z", "o", "n", "e", "N", "a", "m", "e">>
S_InternalHostname == <<"I", "n", "t", "e", "r", "n", "a", "l", "H", "o", "s", "t", "n", "a", "m", "e">>
S_LambdaArnPrefix == <<"a", "r", "n", ":", "a", "w", "s", ":", "l", "a", "m", "b", "d", "a", ":">>

\* s.startswith(prefix)
startswith(s, prefix) ==
    /\ Len(s) >= Len(prefix)
    /\ SubSeq(s, 1, Len(prefix)) = prefix

\* ------------------------------------------------------------- values
\* A property or output value: a literal, a Ref or a GetAtt on a logical
\* name, the NoValue marker, or the head of a Join (its delimiter).
Lit(s) == [tag |-> "lit", lit |-> s, name |-> <<>>, attr |-> ""]
Ref(n) == [tag |-> "ref", lit |-> "", name |-> n, attr |-> ""]
GetAtt(n, a) == [tag |-> "getatt", lit |-> "", name |-> n, attr |-> a]
NoValue == [tag |-> "novalue", lit |-> "", name |-> <<>>, attr |-> ""]
Join(delim, vals) == <<[tag |-> "join", lit |-> delim, name |-> <<>>, attr |-> ""]>> \o vals
Format(fmt, n) == [tag |-> "format", lit |-> fmt, name |-> n, attr |-> ""]
Region == [tag |-> "ref", lit |-> "AWS::Region", name |-> <<>>, attr |-> ""]
AccountId == [tag |-> "ref", lit |-> "AWS::AccountId", name |-> <<>>, attr |-> ""]

\* x or NoValue
OrNoValue(s) == IF s # "" THEN Lit(s) ELSE NoValue

Resource(n, k, c, p) == [name |-> n, kind |-> k, cond |-> c, props |-> p]
Output(n, v, c) == [name |-> n, value |-> v, cond |-> c]

\* ----------------------------------------------------------- template
\* Template.add_resource / add_output applied to a list of construction
\* operations in order; stops at the first operation that raises.
AddResource(r) == [op |-> "resource", r |-> r]
AddOutput(o) == [op |-> "output", o |-> o]
Raise(e) == [op |-> "raise", e |-> e]

ResourceNames(res) == {res[k].name : k \in DOMAIN res}
OutputNames(outs) == {outs[k].name : k \in DOMAIN outs}

\* a plain dict assignment: a resource of the same name is replaced
add_resource_overwrite(t, r) ==
    IF r.name \in ResourceNames(t.resources)
    THEN [t EXCEPT !.resources =
             [k \in DOMAIN @ |-> IF @[k].name = r.name THEN r ELSE @[k]]]
    ELSE [t EXCEPT !.resources = Append(@, r)]

add_resource(t, r) ==
    IF r.name \in ResourceNames(t.resources)
    THEN [t EXCEPT !.error = "DuplicateResourceName"]
    ELSE [t EXCEPT !.resources = Append(@, r)]

add_output(t, o) ==
    IF o.name \in OutputNames(t.outputs)
    THEN [t EXCEPT !.error = "DuplicateOutputName"]
    ELSE [t EXCEPT !.outputs = Append(@, o)]

RECURSIVE Run(_, _)
Run(t, ops) ==
    IF ops = <<>> \/ t.error # "none" THEN t
    ELSE LET o == Head(ops) IN
         Run(CASE o.op = "resource" -> add_resource(t, o.r)
               [] o.op = "output" -> add_output(t, o.o)
               [] OTHER -> [t EXCEPT !.error = o.e],
             Tail(ops))

Template == [resources |-> resources, outputs |-> outputs, error |-> error]

\* One construction step: apply ops to the template; an exception ends
\* the render where it is raised, nothing is rolled back.
Step(ops, next) ==
    LET t == Run(Template, ops) IN
    /\ resources' = t.resources
    /\ outputs' = t.outputs
    /\ error' = t.error
    /\ pc' = IF t.error # "none" THEN "failed" ELSE next

\* ----------------------------------------------- aws_lambda.Function
VpcConfigKeys == {"SecurityGroupIds", "SubnetIds"}

lambda_basic_execution_statements(log_group) ==
    Join("", <<Lit("arn:aws:logs:"), Region, Lit(":"), AccountId,
               Lit(":log-group:")>> \o log_group)
    \o Join("", <<Lit("arn:aws:logs:"), Region, Lit(":"), AccountId,
                  Lit(":log-group:")>> \o log_group \o <<Lit(":*")>>)

code(v) == <<Lit(v.Code)>>

dead_letter_config(v) ==
    IF v.DeadLetterArn # "" THEN <<Lit(v.DeadLetterArn)>> ELSE <<NoValue>>

environment(v) ==
    IF v.Environment # {} THEN <<Lit("Variables")>> ELSE <<NoValue>>

\* awslambda.VPCConfig(**vpc_config) rejects a key it has no property for
vpc_config_raises(v) == ~(v.VpcConfig \subseteq VpcConfigKeys)

vpc_config(v) ==
    IF v.VpcConfig # {} THEN <<Lit("VPCConfig")>> ELSE <<NoValue>>

generate_policy_statements ==
    lambda_basic_execution_statements(
        Join("/", <<Lit("/aws/lambda"), Ref(S_Function)>>))

\* the role and the policy built whatever Role holds
NeedsOwnRole_Always(v) == TRUE

NeedsOwnRole(v) == v.Role = ""

Function_create_template ==
    /\ bp = "Function" /\ pc = "create_template"
    /\ role_arn' = Lit(variables.Role)
    /\ pc' = IF NeedsOwnRole(variables) THEN "create_role" ELSE "create_function"
    /\ UNCHANGED <<emitted, bp, name, variables, resources, outputs, conditions,
                   i, aws_lambda_arns, error>>

\* the role's name (Ref) taken for its Arn
RoleArnOf_Ref(role) == Ref(role)

RoleArnOf(role) == GetAtt(role, "Arn")

create_role ==
    /\ bp = "Function" /\ pc = "create_role"
    /\ Step(<<AddResource(Resource(S_Role, "AWS::IAM::Role", "",
                  [AssumeRolePolicyDocument |-> <<Lit("lambda.amazonaws.com")>>])),
              AddOutput(Output("RoleName", Ref(S_Role), "")),
              AddOutput(Output("RoleArn", RoleArnOf(S_Role), ""))>>,
            "create_policy")
    /\ role_arn' = RoleArnOf(S_Role)
    /\ UNCHANGED <<emitted, bp, name, variables, conditions, i, aws_lambda_arns>>

PolicyRoles(role) == <<Ref(role)>>

create_policy ==
    /\ bp = "Function" /\ pc = "create_policy"
    /\ Step(<<AddResource(Resource(S_Policy, "AWS::IAM::Policy", "",
                  [PolicyName |-> <<Format("%s-policy", name)>>,
                   PolicyDocument |-> generate_policy_statements,
                   Roles |-> PolicyRoles(S_Role)])),
              AddOutput(Output("PolicyName", Ref(S_Policy), ""))>>,
            "create_function")
    /\ UNCHANGED <<emitted, bp, name, variables, conditions, role_arn, i, aws_lambda_arns>>

HasAlias(v) == v.AliasName # ""

\* the alias version passed through without the '$LATEST' fallback
AliasFunctionVersion_NoDefault(v) == v.AliasVersion

AliasFunctionVersion(v) ==
    IF v.AliasVersion # "" THEN v.AliasVersion ELSE "$LATEST"

\* the two outputs of the function declared in the other order
FunctionOutputs_Swapped ==
    <<AddOutput(Output("FunctionArn", GetAtt(S_Function, "Arn"), "")),
      AddOutput(Output("FunctionName", Ref(S_Function), ""))>>

FunctionOutputs ==
    <<AddOutput(Output("FunctionName", Ref(S_Function), "")),
      AddOutput(Output("FunctionArn", GetAtt(S_Function, "Arn"), ""))>>

create_function_ops(v, rolearn) ==
    IF vpc_config_raises(v) THEN <<Raise("UnknownField")>>
    ELSE
      <<AddResource(Resource(S_Function, "AWS::Lambda::Function", "",
            [Code |-> code(v),
             DeadLetterConfig |-> dead_letter_config(v),
             Description |-> <<OrNoValue(v.Description)>>,
             Environment |-> environment(v),
             Handler |-> <<Lit(v.Handler)>>,
             KmsKeyArn |-> <<OrNoValue(v.KmsKeyArn)>>,
             MemorySize |-> <<Lit(v.MemorySize)>>,
             Role |-> <<rolearn>>,
             Runtime |-> <<Lit(v.Runtime)>>,
             Timeout |-> <<Lit(v.Timeout)>>,
             VpcConfig |-> vpc_config(v)]))>>
      \o FunctionOutputs
      \o <<AddResource(Resource(S_LatestVersion, "AWS::Lambda::Version", "",
               [FunctionName |-> <<Ref(S_Function)>>])),
           AddOutput(Output("LatestVersion", Ref(S_LatestVersion), "")),
           AddOutput(Output("LatestVersionArn",
                            GetAtt(S_LatestVersion, "Version"), ""))>>
      \o (IF HasAlias(v)
          THEN <<AddResource(Resource(S_Alias, "AWS::Lambda::Alias", "",
                     [Name |-> <<Lit(v.AliasName)>>,
                      FunctionName |-> <<Ref(S_Function)>>,
                      FunctionVersion |-> <<Lit(AliasFunctionVersion(v))>>])),
                 AddOutput(Output("AliasArn", Ref(S_Alias), ""))>>
          ELSE <<>>)

create_function ==
    /\ bp = "Function" /\ pc = "create_function"
    /\ Step(create_function_ops(variables, role_arn), "done")
    /\ UNCHANGED <<emitted, bp, name, variables, conditions, role_arn, i, aws_lambda_arns>>

\* --------------------------------------- aws_lambda.FunctionScheduler
Str(cs) == [tag |-> "str", lit |-> "", name |-> cs, attr |-> ""]

Alnum == {"a", "b", "A", "B"}

uppercase_first_letter(c) ==
    CASE c = "a" -> "A"
      [] c = "b" -> "B"
      [] OTHER -> c

\* stacker.util.cf_safe_name: the alphanumeric runs of the name, each with
\* its first letter upper-cased, joined.
RECURSIVE SafeParts(_, _)
SafeParts(s, first) ==
    IF s = <<>> THEN <<>>
    ELSE IF Head(s) \notin Alnum THEN SafeParts(Tail(s), TRUE)
    ELSE <<IF first THEN uppercase_first_letter(Head(s)) ELSE Head(s)>>
         \o SafeParts(Tail(s), FALSE)

cf_safe_name(s) == SafeParts(s, TRUE)

\* getattr(troposphere_events_rule, "Targets", [])
RuleTargets(v) == IF v.hasTargets THEN v.Targets ELSE <<>>

IsLambdaArn(arn) == startswith(arn, S_LambdaArnPrefix)

\* d[key] = value on a dict kept in insertion order
DictSet(d, key, value) ==
    IF \E k \in DOMAIN d : d[k].key = key
    THEN [k \in DOMAIN d |->
             IF d[k].key = key THEN [key |-> key, value |-> value] ELSE d[k]]
    ELSE Append(d, [key |-> key, value |-> value])

RECURSIVE TargetValues(_)
TargetValues(ts) ==
    IF ts = <<>> THEN <<>>
    ELSE <<Str(Head(ts).Id), Str(Head(ts).Arn)>> \o TargetValues(Tail(ts))

RuleResource(v) ==
    Resource(v.title, "AWS::Events::Rule", "",
             [ScheduleExpression |-> <<Lit("rate(1 day)")>>,
              Targets |-> TargetValues(RuleTargets(v))])

PermissionName(safe_id) == S_PermToInvokeFunctionFor \o safe_id

PermissionResource(entry, rule) ==
    Resource(PermissionName(entry.key), "AWS::Lambda::Permission", "",
             [Principal |-> <<Lit("events.amazonaws.com")>>,
              Action |-> <<Lit("lambda:InvokeFunction")>>,
              FunctionName |-> <<Str(entry.value)>>,
              SourceArn |-> <<GetAtt(rule, "Arn")>>])

\* one iteration of the loop over the rule's targets
gather_target ==
    /\ bp = "FunctionScheduler" /\ pc = "gather"
    /\ i <= Len(RuleTargets(variables))
    /\ LET target == RuleTargets(variables)[i] IN
       \/ /\ IsLambdaArn(target.Arn)
          /\ aws_lambda_arns' =
                 DictSet(aws_lambda_arns, cf_safe_name(target.Id), target.Arn)
       \/ /\ ~IsLambdaArn(target.Arn)
          /\ UNCHANGED aws_lambda_arns
    /\ i' = i + 1
    /\ UNCHANGED <<emitted, bp, name, variables, pc, resources, outputs, conditions,
                   role_arn, error>>

add_rule ==
    /\ bp = "FunctionScheduler" /\ pc = "gather"
    /\ i > Len(RuleTargets(variables))
    /\ Step(<<AddResource(RuleResource(variables))>>, "permissions")
    /\ i' = 1
    /\ UNCHANGED <<emitted, bp, name, variables, conditions, role_arn, aws_lambda_arns>>

\* one iteration of the loop over aws_lambda_arns.items()
add_permission ==
    /\ bp = "FunctionScheduler" /\ pc = "permissions"
    /\ i <= Len(aws_lambda_arns)
    /\ Step(<<AddResource(PermissionResource(aws_lambda_arns[i], variables.title))>>,
            "permissions")
    /\ i' = i + 1
    /\ UNCHANGED <<emitted, bp, name, variables, conditions, role_arn, aws_lambda_arns>>

scheduler_done ==
    /\ bp = "FunctionScheduler" /\ pc = "permissions"
    /\ i > Len(aws_lambda_arns)
    /\ pc' = "done"
    /\ UNCHANGED <<emitted, bp, name, variables, resources, outputs, conditions,
                   role_arn, i, aws_lambda_arns, error>>

\* ------------------------------------------------ postgres.PostgresRDS
RDS_INSTANCE_NAME(n) == S_PostgresRDS \o n
RDS_SUBNET_GROUP(n) == n \o S_SubnetGroup
RDS_SG_NAME(n) == S_RdsSG \o n
DnsRecordName(db_name) == db_name \o S_DnsRecord

\* the variables of CFN type, which become template parameters
PostgresParameters ==
    {S_VpcId, S_PrivateSubnets, S_InstanceType, S_AllocatedStorage,
     S_MasterUser, S_MasterUserPassword, S_PreferredBackupWindow, S_DBName,
     S_InternalZoneId, S_InternalZoneName, S_InternalHostname}

Not(x) == [op |-> "Not", args |-> <<x>>]
Equals(a, b) == [op |-> "Equals", args |-> <<a, b>>]
And(cs) == [op |-> "And", args |-> cs]
Condition(n) == [op |-> "Condition", args |-> <<n>>]

HasInternalZone == Not(Equals(Ref(S_InternalZoneId), Lit("")))
HasInternalZoneName == Not(Equals(Ref(S_InternalZoneName), Lit("")))
HasInternalHostname == Not(Equals(Ref(S_InternalHostname), Lit("")))
\* the conjunction without its third operand
CreateInternalHostname_TwoOperands ==
    And(<<Condition("HasInternalZone"), Condition("HasInternalZoneName")>>)

CreateInternalHostname ==
    And(<<Condition("HasInternalZone"), Condition("HasInternalZoneName"),
          Condition("HasInternalHostname")>>)

add_condition(cs, n, e) == Append(cs, [name |-> n, expr |-> e])

create_conditions ==
    /\ bp = "PostgresRDS" /\ pc = "create_conditions"
    /\ conditions' =
         add_condition(
           add_condition(
             add_condition(
               add_condition(conditions, "HasInternalZone", HasInternalZone),
               "HasInternalZoneName", HasInternalZoneName),
             "HasInternalHostname", HasInternalHostname),
           "CreateInternalHostname", CreateInternalHostname)
    /\ pc' = "create_subnet_group"
    /\ UNCHANGED <<emitted, bp, name, variables, resources, outputs, role_arn, i,
                   aws_lambda_arns, error>>

create_subnet_group ==
    /\ bp = "PostgresRDS" /\ pc = "create_subnet_group"
    /\ Step(<<AddResource(Resource(RDS_SUBNET_GROUP(name),
                  "AWS::RDS::DBSubnetGroup", "",
                  [DBSubnetGroupDescription |->
                       <<Format("%s VPC subnet group.", name)>>,
                   SubnetIds |-> <<Ref(S_PrivateSubnets)>>]))>>,
            "create_security_group")
    /\ UNCHANGED <<emitted, bp, name, variables, conditions, role_arn, i, aws_lambda_arns>>

create_security_group ==
    /\ bp = "PostgresRDS" /\ pc = "create_security_group"
    /\ LET sg_name == RDS_SG_NAME(name) IN
       Step(<<AddResource(Resource(sg_name, "AWS::EC2::SecurityGroup", "",
                  [GroupDescription |->
                       <<Format("%s RDS security group", sg_name)>>,
                   VpcId |-> <<Ref(S_VpcId)>>])),
              AddOutput(Output("SecurityGroup", Ref(sg_name), ""))>>,
            "create_rds")
    /\ UNCHANGED <<emitted, bp, name, variables, conditions, role_arn, i, aws_lambda_arns>>

DnsCondition == "CreateInternalHostname"
DBCnameCondition == "CreateInternalHostname"
\* the subnet group referenced under the format applied the other way round
DBSubnetGroupRef_Swapped(n) == Ref(S_SubnetGroup \o n)

DBSubnetGroupRef(n) == Ref(RDS_SUBNET_GROUP(n))

create_rds_ops(n) ==
    LET db_name == RDS_INSTANCE_NAME(n)
        endpoint == GetAtt(db_name, "Endpoint.Address")
    IN
    <<AddResource(Resource(db_name, "AWS::RDS::DBInstance", "",
          [AllocatedStorage |-> <<Ref(S_AllocatedStorage)>>,
           AllowMajorVersionUpgrade |-> <<Lit("False")>>,
           AutoMinorVersionUpgrade |-> <<Lit("True")>>,
           BackupRetentionPeriod |-> <<Lit("30")>>,
           DBName |-> <<Ref(S_DBName)>>,
           DBInstanceClass |-> <<Ref(S_InstanceType)>>,
           DBSubnetGroupName |-> <<DBSubnetGroupRef(n)>>,
           Engine |-> <<Lit("postgres")>>,
           EngineVersion |-> <<Lit("9.3.14")>>,
           MasterUsername |-> <<Ref(S_MasterUser)>>,
           MasterUserPassword |-> <<Ref(S_MasterUserPassword)>>,
           MultiAZ |-> <<Lit("True")>>,
           PreferredBackupWindow |-> <<Ref(S_PreferredBackupWindow)>>,
           VPCSecurityGroups |-> <<Ref(RDS_SG_NAME(n))>>])),
      AddResource(Resource(DnsRecordName(db_name), "AWS::Route53::RecordSet",
          DnsCondition,
          [HostedZoneId |-> <<Ref(S_InternalZoneId)>>,
           Comment |-> <<Lit("RDS DB CNAME Record")>>,
           Name |-> Join(".", <<Ref(S_InternalHostname),
                                Ref(S_InternalZoneName)>>),
           Type |-> <<Lit("CNAME")>>,
           TTL |-> <<Lit("120")>>,
           ResourceRecords |-> <<endpoint>>])),
      AddOutput(Output("DBAddress", endpoint, "")),
      AddOutput(Output("DBCname", Ref(DnsRecordName(db_name)),
                       DBCnameCondition))>>

create_rds ==
    /\ bp = "PostgresRDS" /\ pc = "create_rds"
    /\ Step(create_rds_ops(name), "done")
    /\ UNCHANGED <<emitted, bp, name, variables, conditions, role_arn, i, aws_lambda_arns>>

\* ------------------------------------------- condition evaluation
\* What the renderer computes for a condition, given the parameter values.
ParamValue(n, v) ==
    CASE n = S_InternalZoneId -> v.InternalZoneId
      [] n = S_InternalZoneName -> v.InternalZoneName
      [] n = S_InternalHostname -> v.InternalHostname
      [] OTHER -> "?"

EvalValue(x, v) == IF x.tag = "ref" THEN ParamValue(x.name, v) ELSE x.lit

ConditionNamed(cs, n) == cs[CHOOSE k \in DOMAIN cs : cs[k].name = n].expr

RECURSIVE EvalCondition(_, _, _)
EvalCondition(e, cs, v) ==
    CASE e.op = "Not" -> ~EvalCondition(e.args[1], cs, v)
      [] e.op = "Equals" -> EvalValue(e.args[1], v) = EvalValue(e.args[2], v)
      [] e.op = "And" ->
            \A k \in DOMAIN e.args : EvalCondition(e.args[k], cs, v)
      [] e.op = "Condition" ->
            /\ \E k \in DOMAIN cs : cs[k].name = e.args[1]
            /\ EvalCondition(ConditionNamed(cs, e.args[1]), cs, v)

\* ------------------------------------------------------ output emission
\* The outputs of the finished graph, walked in declaration order, each
\* with its owning condition.
RECURSIVE emit(_)
emit(outs) ==
    IF outs = <<>> THEN <<>>
    ELSE <<[name |-> Head(outs).name, value |-> Head(outs).value,
            cond |-> Head(outs).cond]>> \o emit(Tail(outs))

Emit ==
    /\ pc = "done"
    /\ Len(emitted) < MaxEmits
    /\ emitted' = Append(emitted, emit(outputs))
    /\ UNCHANGED <<bp, name, variables, pc, resources, outputs, conditions,
                   role_arn, i, aws_lambda_arns, error>>

\* --------------------------------------------------------------- inputs
Names == {<<"d", "b">>, S_SubnetGroup, S_RdsSG}

FunctionVariables ==
    [Code : {"code"}, Handler : {"handler"}, Runtime : {"python3.6"},
     MemorySize : {"128"}, Timeout : {"3"},
     DeadLetterArn : {"", "arn:aws:sqs:dlq"},
     Description : {"", "text"},
     KmsKeyArn : {"", "arn:aws:kms:key"},
     Environment : {{}, {"KEY"}},
     VpcConfig : {{}, {"SecurityGroupIds", "SubnetIds"}, {"SubnetIds", "Subnets"}},
     Role : {"", "arn:aws:iam::role/given"},
     AliasName : {"", "live"},
     AliasVersion : {"", "$LATEST", "1"}]

InitFunction ==
    /\ bp = "Function"
    /\ name \in Names
    /\ variables \in FunctionVariables
    /\ pc = "create_template"

RuleTitles ==
    {<<"N", "i", "g", "h", "t", "l", "y">>, S_PermToInvokeFunctionFor \o <<"A">>}

TargetIds == {<<"a">>, <<"A">>, <<"a", "-", "b">>, <<"a", "_", "b">>}

TargetArns ==
    {S_LambdaArnPrefix \o <<"f">>, S_LambdaArnPrefix \o <<"g">>,
     <<"a", "r", "n", ":", "a", "w", "s", ":", "s", "n", "s", ":", "t">>}

TargetSet == [Id : TargetIds, Arn : TargetArns]

TargetLists == UNION {[1..n -> TargetSet] : n \in 0..MaxTargets}

InitFunctionScheduler ==
    /\ bp = "FunctionScheduler"
    /\ name \in {<<"d", "b">>}
    /\ \/ variables \in [title : RuleTitles, hasTargets : {TRUE},
                         Targets : TargetLists]
       \/ variables \in [title : RuleTitles, hasTargets : {FALSE},
                         Targets : {<<>>}]
    /\ pc = "gather"

InitPostgresRDS ==
    /\ bp = "PostgresRDS"
    /\ name \in Names
    /\ variables \in [InternalZoneId : {"", "Z1"},
                      InternalZoneName : {"", "example.com"},
                      InternalHostname : {"", "db"}]
    /\ pc = "create_conditions"

Init ==
    /\ (InitFunction \/ InitFunctionScheduler \/ InitPostgresRDS)
    /\ resources = <<>>
    /\ outputs = <<>>
    /\ conditions = <<>>
    /\ role_arn = NoValue
    /\ i = 1
    /\ aws_lambda_arns = <<>>
    /\ error = "none"
    /\ emitted = <<>>

Next ==
    \/ Function_create_template
    \/ create_role
    \/ create_policy
    \/ create_function
    \/ gather_target
    \/ add_rule
    \/ add_permission
    \/ scheduler_done
    \/ create_conditions
    \/ create_subnet_group
    \/ create_security_group
    \/ create_rds
    \/ Emit

Spec == Init /\ [][Next]_vars

\* =============================================================== claims
Finished == pc = "done"
Failed == pc = "failed"

OfKind(k) == {j \in DOMAIN resources : resources[j].kind = k}
Named(n) == resources[CHOOSE j \in DOMAIN resources : resources[j].name = n]
OutputNamed(n) == outputs[CHOOSE j \in DOMAIN outputs : outputs[j].name = n]
InGraph(n) == n \in ResourceNames(resources)

\* C1: a finished Function graph has no role and no policy resource (and
\* none of the outputs RoleName, RoleArn, PolicyName) when Role is
\* non-empty, and exactly one role 'Role' and one policy 'Policy' whose
\* Roles list references that role when Role is empty.
C1_RoleElision ==
    (bp = "Function" /\ Finished) =>
        IF variables.Role # ""
        THEN /\ OfKind("AWS::IAM::Role") = {}
             /\ OfKind("AWS::IAM::Policy") = {}
             /\ OutputNames(outputs) \cap {"RoleName", "RoleArn", "PolicyName"} = {}
        ELSE /\ Cardinality(OfKind("AWS::IAM::Role")) = 1
             /\ Cardinality(OfKind("AWS::IAM::Policy")) = 1
             /\ \A j \in OfKind("AWS::IAM::Role") : resources[j].name = S_Role
             /\ \A j \in OfKind("AWS::IAM::Policy") :
                    /\ resources[j].name = S_Policy
                    /\ resources[j].props.Roles = <<Ref(S_Role)>>

C1_Witness ==
    /\ bp = "Function" /\ Finished /\ variables.Role # ""
    /\ InGraph(S_Function)

C1_WitnessOwned ==
    /\ bp = "Function" /\ Finished /\ variables.Role = ""
    /\ InGraph(S_Role) /\ InGraph(S_Policy)

\* C2: in a finished Function graph the Role property of 'Function' is the
\* supplied Role value when that is non-empty, and the Arn attribute of the
\* 'Role' resource of the same graph when it is empty; never empty or unset.
C2_FunctionRole ==
    (bp = "Function" /\ Finished) =>
        LET r == Named(S_Function).props.Role IN
        /\ InGraph(S_Function)
        /\ IF variables.Role # ""
           THEN r = <<Lit(variables.Role)>>
           ELSE /\ r = <<GetAtt(S_Role, "Arn")>>
                /\ InGraph(S_Role)
        /\ r # <<Lit("")>>
        /\ r # <<NoValue>>

C2_Witness ==
    /\ bp = "Function" /\ Finished /\ variables.Role = ""
    /\ InGraph(S_Function)
    /\ Named(S_Function).props.Role[1].tag = "getatt"

\* C3: a finished PostgresRDS graph always holds the DNS record and the
\* DBCname output, both under the condition CreateInternalHostname, and
\* that condition is true exactly when InternalZoneId, InternalZoneName
\* and InternalHostname are all non-empty.
SuppliedCount ==
    Cardinality({f \in {"InternalZoneId", "InternalZoneName", "InternalHostname"} :
                    variables[f] # ""})

C3_ConditionalDns ==
    (bp = "PostgresRDS" /\ Finished) =>
        LET dns == S_PostgresRDS \o name \o S_DnsRecord IN
        /\ InGraph(dns)
        /\ Named(dns).cond = "CreateInternalHostname"
        /\ "DBCname" \in OutputNames(outputs)
        /\ OutputNamed("DBCname").cond = "CreateInternalHostname"
        /\ EvalCondition(Condition("CreateInternalHostname"), conditions, variables)
             <=> (SuppliedCount = 3)

C3_Witness ==
    /\ bp = "PostgresRDS" /\ Finished /\ SuppliedCount = 2
    /\ InGraph(S_PostgresRDS \o name \o S_DnsRecord)
    /\ ~EvalCondition(Condition("CreateInternalHostname"), conditions, variables)

\* the permission grants of the graph whose FunctionName is the given Arn
GrantsFor(arn) ==
    {j \in OfKind("AWS::Lambda::Permission") :
        resources[j].props.FunctionName = <<Str(arn)>>}

LambdaTargets ==
    {j \in DOMAIN RuleTargets(variables) :
        startswith(RuleTargets(variables)[j].Arn, S_LambdaArnPrefix)}

\* the sanitized form of a target Id, written out for the Ids of the model
SanitizedId(id) ==
    CASE id = <<"a">> -> <<"A">>
      [] id = <<"A">> -> <<"A">>
      [] id = <<"a", "-", "b">> -> <<"A", "B">>
      [] id = <<"a", "_", "b">> -> <<"A", "B">>

\* C4: when two lambda targets (different Ids, different functions) have
\* Ids that sanitize to the same name, the render either fails with
\* DuplicateResourceName or holds a distinct permission grant for each of
\* the two targets.
C4_NoSilentOverwrite ==
    (bp = "FunctionScheduler" /\ Finished) =>
        \A j, k \in LambdaTargets :
            LET tj == RuleTargets(variables)[j]
                tk == RuleTargets(variables)[k] IN
            (/\ j < k /\ tj.Id # tk.Id /\ tj.Arn # tk.Arn
             /\ SanitizedId(tj.Id) = SanitizedId(tk.Id)) =>
                \E p \in GrantsFor(tj.Arn), q \in GrantsFor(tk.Arn) :
                    /\ p # q
                    /\ resources[p].name # resources[q].name

\* C5: a finished FunctionScheduler graph holds the rule exactly once,
\* exactly one permission grant per lambda target (FunctionName the
\* target's Arn, SourceArn the rule's Arn attribute, name
\* PermToInvokeFunctionFor + sanitized Id), and none for other targets.
C5_OneGrantPerLambdaTarget ==
    (bp = "FunctionScheduler" /\ Finished) =>
        /\ Cardinality(OfKind("AWS::Events::Rule")) = 1
        /\ \A j \in DOMAIN RuleTargets(variables) :
              LET t == RuleTargets(variables)[j]
                  g == {p \in OfKind("AWS::Lambda::Permission") :
                          /\ resources[p].name =
                               S_PermToInvokeFunctionFor \o SanitizedId(t.Id)
                          /\ resources[p].props.FunctionName = <<Str(t.Arn)>>
                          /\ resources[p].props.SourceArn =
                               <<GetAtt(variables.title, "Arn")>>}
              IN IF j \in LambdaTargets
                 THEN Cardinality(g) = 1
                 ELSE GrantsFor(t.Arn) = {}
        /\ (RuleTargets(variables) = <<>>) =>
              OfKind("AWS::Lambda::Permission") = {}

\* C5, for the target lists in which no two lambda targets sanitize to
\* the same name
NoSanitizedCollision ==
    \A j, k \in LambdaTargets :
        j # k => SanitizedId(RuleTargets(variables)[j].Id)
                   # SanitizedId(RuleTargets(variables)[k].Id)

C5_HoldsWithoutCollision ==
    (bp = "FunctionScheduler" /\ Finished /\ NoSanitizedCollision)
        => C5_OneGrantPerLambdaTarget

NamesDistinct ==
    \A j, k \in DOMAIN resources :
        j # k => resources[j].name # resources[k].name

\* C6: in every state of every render the resource names of the graph are
\* pairwise distinct, and the step that would add a permission grant under
\* a name already in the graph fails with DuplicateResourceName and leaves
\* the graph as it was.
C6_UniqueNames ==
    /\ [] NamesDistinct
    /\ [][ /\ (error = "none" /\ error' = "DuplicateResourceName") =>
                 /\ Len(resources') >= Len(resources)
                 /\ SubSeq(resources', 1, Len(resources)) = resources
           /\ ( /\ bp = "FunctionScheduler" /\ pc = "permissions"
                /\ i <= Len(aws_lambda_arns)
                /\ S_PermToInvokeFunctionFor \o aws_lambda_arns[i].key
                     \in {resources[j].name : j \in DOMAIN resources} ) =>
                 /\ error' = "DuplicateResourceName"
                 /\ pc' = "failed"
                 /\ resources' = resources ]_vars

C6_Witness ==
    /\ bp = "FunctionScheduler" /\ Failed
    /\ error = "DuplicateResourceName"
    /\ Len(resources) = 1
    /\ resources[1].kind = "AWS::Events::Rule"

\* every Ref / GetAtt on a logical name held by a resource property or an
\* output value, with the guard condition of its holder
References ==
    {[target |-> resources[j].props[f][k].name, cond |-> resources[j].cond] :
        <<j, f, k>> \in
          {x \in UNION {UNION {{<<j, f, k>> : k \in DOMAIN resources[j].props[f]} :
                                f \in DOMAIN resources[j].props} :
                        j \in DOMAIN resources} :
              /\ resources[x[1]].props[x[2]][x[3]].tag \in {"ref", "getatt"}
              /\ resources[x[1]].props[x[2]][x[3]].name # <<>>}}
    \cup
    {[target |-> outputs[j].value.name, cond |-> outputs[j].cond] :
        j \in {x \in DOMAIN outputs :
                 /\ outputs[x].value.tag \in {"ref", "getatt"}
                 /\ outputs[x].value.name # <<>>}}

Parameters == IF bp = "PostgresRDS" THEN PostgresParameters ELSE {}

\* C7: in a finished graph every reference to a resource targets a
\* resource of the graph, and a reference to a resource under a guard
\* condition is held under the same guard condition.
C7_ReferencesResolve ==
    Finished =>
        \A r \in References :
            \/ r.target \in Parameters
            \/ /\ InGraph(r.target)
               /\ Named(r.target).cond # "" => r.cond = Named(r.target).cond

C7_Witness ==
    /\ bp = "PostgresRDS" /\ Finished
    /\ \E r \in References :
          /\ InGraph(r.target)
          /\ Named(r.target).cond = "CreateInternalHostname"
          /\ r.cond = "CreateInternalHostname"

\* C8: a failed render yields no graph and no outputs: no state exposes a
\* partially assembled graph after a construction step failed.
C8_NoPartialGraph ==
    Failed => (resources = <<>> /\ outputs = <<>>)

\* C8, the part the code keeps: a render stops at the first failing step
\* with one error and never resumes.
C8_AbortsAtFirstError ==
    [][ (error # "none") => UNCHANGED <<resources, outputs, error, pc>> ]_vars

ExpectedFunctionOutputs ==
    (IF variables.Role = "" THEN <<"RoleName", "RoleArn", "PolicyName">> ELSE <<>>)
    \o <<"FunctionName", "FunctionArn", "LatestVersion", "LatestVersionArn">>
    \o (IF variables.AliasName # "" THEN <<"AliasArn">> ELSE <<>>)

\* C9: every emission of a finished graph is the declared outputs exactly
\* once in declaration order with their conditions: for Function
\* [RoleName, RoleArn, PolicyName] (Role empty), FunctionName, FunctionArn,
\* LatestVersion, LatestVersionArn, [AliasArn] (AliasName non-empty), all
\* unconditioned; for PostgresRDS SecurityGroup, DBAddress (unconditioned),
\* DBCname (CreateInternalHostname). Two emissions are the same sequence.
C9_EmissionOrder ==
    \A e \in DOMAIN emitted :
        /\ Len(emitted[e]) = Len(outputs)
        /\ \A k \in DOMAIN outputs : emitted[e][k] = outputs[k]
        /\ bp = "Function" =>
              /\ [k \in DOMAIN emitted[e] |-> emitted[e][k].name]
                   = ExpectedFunctionOutputs
              /\ \A k \in DOMAIN emitted[e] : emitted[e][k].cond = ""
        /\ bp = "PostgresRDS" =>
              /\ [k \in DOMAIN emitted[e] |-> emitted[e][k].name]
                   = <<"SecurityGroup", "DBAddress", "DBCname">>
              /\ [k \in DOMAIN emitted[e] |-> emitted[e][k].cond]
                   = <<"", "", "CreateInternalHostname">>
        /\ \A e2 \in DOMAIN emitted : emitted[e2] = emitted[e]

C9_Witness ==
    /\ bp = "Function" /\ Len(emitted) = 2
    /\ Len(emitted[2]) = 8

\* C10: in a finished Function graph 'Alias' and the output AliasArn are
\* present exactly when AliasName is non-empty, without guard condition;
\* the alias references 'Function', has Name = AliasName and
\* FunctionVersion = AliasVersion, or '$LATEST' when AliasVersion is
\* empty. 'Function', 'LatestVersion' and their four outputs are always
\* present.
C10_AliasElision ==
    (bp = "Function" /\ Finished) =>
        /\ InGraph(S_Alias) <=> (variables.AliasName # "")
        /\ ("AliasArn" \in OutputNames(outputs)) <=> (variables.AliasName # "")
        /\ InGraph(S_Alias) =>
              /\ Named(S_Alias).cond = ""
              /\ OutputNamed("AliasArn").cond = ""
              /\ OutputNamed("AliasArn").value = Ref(S_Alias)
              /\ Named(S_Alias).props.FunctionName = <<Ref(S_Function)>>
              /\ Named(S_Alias).props.Name = <<Lit(variables.AliasName)>>
              /\ Named(S_Alias).props.FunctionVersion =
                    <<Lit(IF variables.AliasVersion = "" THEN "$LATEST"
                          ELSE variables.AliasVersion)>>
        /\ InGraph(S_Function) /\ InGraph(S_LatestVersion)
        /\ {"FunctionName", "FunctionArn", "LatestVersion", "LatestVersionArn"}
              \subseteq OutputNames(outputs)

C10_Witness ==
    /\ bp = "Function" /\ Finished
    /\ variables.AliasName # "" /\ variables.AliasVersion = ""
    /\ InGraph(S_Alias)

====
